---- MODULE Spec2Model ----
(***************************************************************************)
(* A model of the posting bot (src/bot.py): the content finalizer as pure  *)
(* operators on texts, and the scheduler loop of main as a state machine;  *)
(* and of the authorization flow (src/auth.py): main and the thread of the *)
(* callback server, one shared attribute access at a time.                 *)
(*                                                                         *)
(* A text is a sequence of characters, each character a string that names  *)
(* it (the character itself where it is ASCII); len(text) of the source is *)
(* Len of the sequence.                                                    *)
(***************************************************************************)
EXTENDS Integers, Sequences, FiniteSets, TLC

\* The finalizer, taken one statement at a time on one draft:
VARIABLES
    fstage,     \* the statement of finalize_tweet reached
    fdraft,     \* text, as handed to finalize_tweet
    fweb,       \* website
    finc,       \* include_site
    ftext,      \* the local variable text of finalize_tweet
    fprev,      \* text before the statement last executed
    fhas,       \* the website occurs in text (website.lower() in text.lower())
    flost       \* a call of _trim_to_tweet has taken the website out of the text

fvars == <<fstage, fdraft, fweb, finc, ftext, fprev, fhas, flost>>

\* The scheduler loop of main:
VARIABLES
    pc,             \* where main is: "cycle" (line 373), "attempt" (line 328),
                    \* "post" (382), "record" (386), "mark" (388),
                    \* "skip_sleep" (378), "sleep" (399), "exited"
    website,        \* LAUNCHPAD_WEBSITE
    history,        \* the lines of the file at HISTORY_PATH
    usage,          \* the file at WEBSITE_USAGE_PATH
    prompt_file,    \* the file at PROMPT_INDEX_PATH
    today,          \* the UTC day, as a number
    history_hashes, \* main's local history_hashes
    include_site,   \* main's local include_site
    text,           \* main's local text (the empty text for None)
    attempt,        \* attempt of generate_viral_tweet, 0 outside of it
    accepted,       \* the fingerprints of the posts the platform has accepted
    nAccepted,      \* how many posts the platform has accepted
    sitePosts,      \* how many posts were published today with include_site
    requests,       \* the generation requests issued in generate_viral_tweet
    rejection,      \* why its last attempt went on to the next: "none", "gen"
                    \* (no text generated), "duplicate" or "short"
    posted,         \* the platform has accepted the post of this cycle
    recorded,       \* a history record was appended in this cycle
    failure,        \* the exception raised in this cycle, "none" if none
    interval_seconds, \* main's local interval_seconds
    slept,          \* the sleeps taken since the cycle began, each given by
                    \* the seconds handed to time.sleep
    seeds           \* the seeds next_prompt has returned to the attempts of
                    \* this cycle that went on to a next one, each given by
                    \* its position in PROMPTS (from 0)

mvars == <<pc, website, history, usage, prompt_file, today, history_hashes,
           include_site, text, attempt, accepted, nAccepted, sitePosts,
           requests, rejection, posted, recorded, failure,
           interval_seconds, slept, seeds>>

\* The authorization flow: main of src/auth.py and the server thread
VARIABLES
    apc,          \* where main of auth.py is: "start" (line 128), "wait" (134),
                  \* "read_code" (139), "read_state" (140), "shutdown" (141),
                  \* "check" (143), "exchange" (149), "save" (150), "done",
                  \* "failed"; "idle" when it is not running
    state,        \* main's local state (line 114)
    auth_code,    \* server.auth_code
    auth_state,   \* server.auth_state
    done_event,   \* server.done_event is set
    serving,      \* serve_forever is running in the server thread
    hpc,          \* where the server thread is: "idle" (between requests),
                  \* "code" (line 59), "state" (line 60), "signal" (line 66)
    hcode,        \* do_GET's local code
    hstate,       \* do_GET's local state
    served,       \* how many requests the server has taken
    callbacks,    \* the code and state of every callback request taken
    code,         \* main's local code (line 139)
    recv_state,   \* main's local recv_state (line 140)
    sent_code,    \* the code posted to TOKEN_URL, None before
    status_code,  \* r.status_code of the token exchange, 0 before
    tokens,       \* main's local tokens (line 149)
    tokens_file,  \* the file at TOKENS_PATH
    timed_out,    \* done_event.wait returned False
    afailure      \* the exception main has raised, "none" if none

avars == <<apc, state, auth_code, auth_state, done_event, serving, hpc, hcode,
           hstate, served, callbacks, code, recv_state, sent_code,
           status_code, tokens, tokens_file, timed_out, afailure>>

vars == <<mvars, fvars, avars>>

\* ------------------------------------------------------------------------
\* Characters
\* ------------------------------------------------------------------------

\* U+2026, the character _trim_to_tweet ends a trimmed text with, and
\* U+2014, the character ensure_brand_and_site puts before the website.
Ellipsis == "<U+2026>"
EmDash == "<U+2014>"

\* The whitespace characters matched by \s and removed by strip().
Whitespace == {" ", "\n", "\t"}

\* The punctuation class [?.!,] of clean_spacing.
Punct == {"?", ".", "!", ","}

UpperLetters == <<"A","B","C","D","E","F","G","H","I","J","K","L","M",
                  "N","O","P","Q","R","S","T","U","V","W","X","Y","Z">>

LowerLetters == <<"a","b","c","d","e","f","g","h","i","j","k","l","m",
                  "n","o","p","q","r","s","t","u","v","w","x","y","z">>

UpperSet == {UpperLetters[i] : i \in 1..Len(UpperLetters)}

\* str.lower() on one character.
LowerChar(c) ==
    IF c \in UpperSet
    THEN LowerLetters[CHOOSE i \in 1..Len(UpperLetters) : UpperLetters[i] = c]
    ELSE c

\* str.lower() (the concatenation makes the result a tuple, computed once)
Lower(s) == [i \in 1..Len(s) |-> LowerChar(s[i])] \o <<>>

\* The text of n copies of the character c.
Rep(c, n) == [i \in 1..n |-> c]

\* ------------------------------------------------------------------------
\* String primitives of the Python runtime
\* ------------------------------------------------------------------------

\* text[:n]
Take(s, n) == SubSeq(s, 1, IF n < Len(s) THEN n ELSE Len(s))

\* The concatenation Emit(lo) \o ... \o Emit(hi), built by halving the range
\* (the order of the pieces is the order of the positions).
RECURSIVE ConcatRange(_, _, _)
ConcatRange(Emit(_), lo, hi) ==
    IF lo > hi THEN <<>>
    ELSE IF lo = hi THEN Emit(lo)
    ELSE ConcatRange(Emit, lo, (lo + hi) \div 2)
         \o ConcatRange(Emit, (lo + hi) \div 2 + 1, hi)

\* The characters of s at the positions where Keep holds, in order.
Filter(s, Keep(_)) ==
    LET Emit(i) == IF Keep(i) THEN <<s[i]>> ELSE <<>>
    IN  ConcatRange(Emit, 1, Len(s))

\* str.rstrip(): the text up to its last character that is not whitespace.
RStrip(s) ==
    LET IsLast(i) == s[i] \notin Whitespace
                     /\ \A j \in (i + 1)..Len(s) : s[j] \in Whitespace
    IN  IF \A i \in 1..Len(s) : s[i] \in Whitespace THEN <<>>
        ELSE SubSeq(s, 1, CHOOSE i \in 1..Len(s) : IsLast(i))

\* str.lstrip(): the text from its first character that is not whitespace.
LStrip(s) ==
    LET IsFirst(i) == s[i] \notin Whitespace
                      /\ \A j \in 1..(i - 1) : s[j] \in Whitespace
    IN  IF \A i \in 1..Len(s) : s[i] \in Whitespace THEN <<>>
        ELSE SubSeq(s, CHOOSE i \in 1..Len(s) : IsFirst(i), Len(s))

\* str.strip()
Strip(s) == LStrip(RStrip(s))

\* sub occurs in s at position i (1-based).
OccursAt(sub, s, i) ==
    /\ i >= 1
    /\ i + Len(sub) - 1 <= Len(s)
    /\ \A k \in 1..Len(sub) : s[i + k - 1] = sub[k]

\* sub in s
Contains(s, sub) == \E i \in 1..(Len(s) - Len(sub) + 1) : OccursAt(sub, s, i)

\* str.startswith / str.endswith on a one-character argument
StartsWith(s, c) == Len(s) >= 1 /\ s[1] = c
EndsWith(s, c) == Len(s) >= 1 /\ s[Len(s)] = c

\* re.sub(r"\s+", " ", s): every maximal run of whitespace becomes one space.
CollapseWs(s) ==
    LET t == [i \in 1..Len(s) |-> IF s[i] \in Whitespace THEN " " ELSE s[i]]
        Keep(i) == s[i] \notin Whitespace \/ i = 1 \/ s[i - 1] \notin Whitespace
    IN  Filter(t, Keep)

\* re.sub(r"\s{2,}", " ", s): runs of two or more whitespace characters
\* become one space; a single whitespace character is kept as it is.
CollapseWs2(s) ==
    LET InRun(i) == /\ s[i] \in Whitespace
                    /\ \/ (i > 1 /\ s[i - 1] \in Whitespace)
                       \/ (i < Len(s) /\ s[i + 1] \in Whitespace)
        t == [i \in 1..Len(s) |-> IF InRun(i) THEN " " ELSE s[i]]
        Keep(i) == ~InRun(i) \/ i = 1 \/ s[i - 1] \notin Whitespace
    IN  Filter(t, Keep)

\* re.sub(r"\s+([?.!,])", r"\1", s): a run of whitespace that is directly
\* followed by a punctuation character is deleted.
DropWsBeforePunct(s) ==
    LET RunEndsAt(i, j) == /\ \A k \in i..j : s[k] \in Whitespace
                           /\ j < Len(s)
                           /\ s[j + 1] \notin Whitespace
        Keep(i) ==
            \/ s[i] \notin Whitespace
            \/ ~\E j \in i..Len(s) : RunEndsAt(i, j) /\ s[j + 1] \in Punct
    IN  Filter(s, Keep)

\* re.sub(r"([?.!,])([^\s])", r"\1 \2", s): scanning from the left, a
\* punctuation character followed by a non-whitespace character gets a space
\* between the two, and the scan resumes after the second character: the
\* pattern matches at i when it occurs there and the match before it, if
\* any, has not consumed position i as its second character.
SpaceAfterPunct(s) ==
    LET Match[i \in 1..Len(s)] ==
            /\ s[i] \in Punct
            /\ i < Len(s)
            /\ s[i + 1] \notin Whitespace
            /\ ~(i > 1 /\ s[i - 1] \in Punct /\ Match[i - 1])
        Emit(i) == IF Match[i] THEN <<s[i], " ">> ELSE <<s[i]>>
    IN  ConcatRange(Emit, 1, Len(s))

\* re.sub(re.escape(sub), "", s, flags=re.IGNORECASE): scanning from the
\* left, every occurrence of sub (whatever the case of its letters) is
\* deleted and the scan resumes after it, in one pass: the pattern matches at
\* i when it occurs there and no earlier match covers position i.
RemoveAll(s, sub) ==
    LET ls == Lower(s)
        lsub == Lower(sub)
        m == Len(sub)
        Before(i) == {j \in (i - m + 1)..(i - 1) : j >= 1}
        Match[i \in 1..Len(s)] ==
            /\ OccursAt(lsub, ls, i)
            /\ \A j \in Before(i) : ~(OccursAt(lsub, ls, j) /\ Match[j])
        Covered(i) == Match[i] \/ \E j \in Before(i) : OccursAt(lsub, ls, j) /\ Match[j]
        Keep(i) == ~Covered(i)
    IN  Filter(s, Keep)

\* " ".join(words)
RECURSIVE JoinSp(_)
JoinSp(words) ==
    IF Len(words) = 0 THEN <<>>
    ELSE IF Len(words) = 1 THEN words[1]
    ELSE words[1] \o <<" ">> \o JoinSp(Tail(words))

\* ------------------------------------------------------------------------
\* Configuration
\* ------------------------------------------------------------------------

\* The platform's limit on the length of a post: the limit every caller
\* hands to _trim_to_tweet.
TweetLimit == 280

\* min_tags of add_crypto_hashtags, as finalize_tweet calls it.
MinTags == 3

\* The length under which generate_viral_tweet rejects a finalized text.
MinLength == 40

\* max_attempts of generate_viral_tweet.
MaxAttempts == 10

\* len(PROMPTS)
NumPrompts == 14

\* LAUNCHPAD_WEBSITE when the environment does not set it: "wenlambo.lol"
DefaultWebsite == <<"w","e","n","l","a","m","b","o",".","l","o","l">>

\* CRYPTO_HASHTAGS
CRYPTO_HASHTAGS == <<
    <<"#","c","r","y","p","t","o">>,
    <<"#","b","n","b">>,
    <<"#","e","t","h","e","r","e","u","m">>,
    <<"#","b","i","t","c","o","i","n">>,
    <<"#","m","e","m","e","c","o","i","n">>,
    <<"#","b","l","o","c","k","c","h","a","i","n">>,
    <<"#","w","e","b","3">>,
    <<"#","t","r","a","d","i","n","g">>,
    <<"#","a","l","t","c","o","i","n","s">>,
    <<"#","d","e","f","i">> >>

\* ------------------------------------------------------------------------
\* Helpers of src/bot.py
\* ------------------------------------------------------------------------

\* normalize_text
normalize_text(txt) == Lower(CollapseWs(Strip(txt)))

\* clean_spacing without its first substitution (line 185)
CleanWithoutFirstSub(txt) == Strip(CollapseWs(SpaceAfterPunct(txt)))

\* clean_spacing
clean_spacing(txt) == Strip(CollapseWs(SpaceAfterPunct(DropWsBeforePunct(txt))))

\* text_hash: the SHA-256 digest of the normalized text. The digest is
\* modelled by the text it is taken of: two texts have the same fingerprint
\* exactly when their normalized texts are equal.
text_hash(txt) == normalize_text(txt)

\* _trim_to_tweet
TrimOffByOne(txt, limit) ==
    LET t == Strip(txt)
    IN  IF Len(t) <= limit THEN t
        ELSE Append(RStrip(Take(t, limit)), Ellipsis)

_trim_to_tweet(txt, limit) ==
    LET t == Strip(txt)
    IN  IF Len(t) <= limit THEN t
        ELSE Append(RStrip(Take(t, limit - 1)), Ellipsis)

\* ensure_brand_and_site
ensure_brand_and_site(txt, web, inc) ==
    LET t == CollapseWs(Strip(txt))
        lt == Lower(t)
        lw == Lower(web)
    IN  IF inc
        THEN IF ~Contains(lt, lw)
             THEN _trim_to_tweet(t \o <<" ", EmDash, " ">> \o web, TweetLimit)
             ELSE t
        ELSE Strip(CollapseWs2(RemoveAll(t, web)))

\* CRYPTO_HASHTAGS in lower case (tag.lower() for each tag of the pool)
LowerTags == [i \in 1..Len(CRYPTO_HASHTAGS) |-> Lower(CRYPTO_HASHTAGS[i])] \o <<>>

\* The tags of the pool that occur in the text (hashtags_in_text), each
\* given by its position in the pool.
TagsInText(txt) ==
    LET lt == Lower(txt)
    IN  {i \in 1..Len(CRYPTO_HASHTAGS) : Contains(lt, LowerTags[i])}

\* needed, in add_crypto_hashtags
TagsNeeded(txt, min_tags) ==
    LET have == Cardinality(TagsInText(txt))
    IN  IF min_tags - have > 0 THEN min_tags - have ELSE 0

\* The results random.sample(CRYPTO_HASHTAGS, k) can have, each given by the
\* positions it takes from the pool: k distinct positions, in any order.
Samples(k, pool) ==
    {q \in [1..k -> pool] : \A i, j \in 1..k : i # j => q[i] # q[j]}

\* add_crypto_hashtags, with extra the positions random.sample has drawn
add_crypto_hashtags(txt, min_tags, extra) ==
    LET needed == TagsNeeded(txt, min_tags)
    IN  IF needed > 0
        THEN _trim_to_tweet(
                txt \o <<" ">> \o
                JoinSp([i \in 1..needed |-> CRYPTO_HASHTAGS[extra[i]]]),
                TweetLimit)
        ELSE txt

\* The first statement of finalize_tweet: one layer of matching quotes is
\* taken off.
Unquote(txt) ==
    IF \/ StartsWith(txt, "\"") /\ EndsWith(txt, "\"")
       \/ StartsWith(txt, "'") /\ EndsWith(txt, "'")
    THEN SubSeq(txt, 2, Len(txt) - 1)
    ELSE txt

\* finalize_tweet, with extra the positions random.sample draws
finalize_tweet(txt, web, inc, extra) ==
    _trim_to_tweet(
        add_crypto_hashtags(
            clean_spacing(ensure_brand_and_site(Unquote(txt), web, inc)),
            MinTags, extra),
        TweetLimit)

\* ------------------------------------------------------------------------
\* The inputs the finalizer is run on
\* ------------------------------------------------------------------------

\* How far past the limit the padded drafts go.
MaxPadOver == 1

\* random.sample draws from the first SamplePool tags of the pool.
SamplePool == 3

\* A configured website without punctuation: "wenlambo"
AltWebsite == <<"w","e","n","l","a","m","b","o">>

Websites == {DefaultWebsite, AltWebsite}

\* The drafts begin with one of these texts ...
Heads == {
    <<"g","m">>,
    <<"\"","g","m"," ","f","a","m","\"">>,
    <<"T","r","y"," ">> \o DefaultWebsite \o <<" ","n","o","w">>,
    <<"W","E","N","L","A","M","B","O",".","L","O","L"," ","!">>,
    <<"w","e","n","l","a","m","b","o",".">> \o DefaultWebsite \o <<"l","o","l">>,
    <<"w","e","n">> \o AltWebsite \o <<"l","a","m","b","o"," ","g","o">>,
    <<"g","m"," ","#","c","r","y","p","t","o"," ","#","B","N","B">>,
    <<"a"," ",","," ","b",".",".","c","\n","\n","d">> }

\* ... and go on with a word of one of these lengths.
PadLens ==
    {0, 40} \cup {TweetLimit - d : d \in {40, 25, 12}}
            \cup (TweetLimit .. (TweetLimit + MaxPadOver))

Padded(head, n) == IF n = 0 THEN head ELSE head \o <<" ">> \o Rep("x", n)

FinDrafts == {Padded(h, n) : h \in Heads, n \in PadLens}

\* website.lower() in text.lower()
HasSite(txt, web) == Contains(Lower(txt), Lower(web))

\* ------------------------------------------------------------------------
\* finalize_tweet, statement by statement
\* ------------------------------------------------------------------------

FinInit ==
    /\ fstage = "draft"
    /\ fdraft \in FinDrafts
    /\ fweb \in Websites
    /\ finc \in BOOLEAN
    /\ ftext = fdraft
    /\ fprev = <<>>
    /\ fhas = HasSite(fdraft, fweb)
    /\ flost = FALSE

\* A statement of finalize_tweet leaves the text t; lost tells whether a call
\* of _trim_to_tweet in it has taken the website out of the text.
FinStep(next, t, lost) ==
    /\ fstage' = next
    /\ ftext' = t
    /\ fprev' = ftext
    /\ fhas' = HasSite(t, fweb)
    /\ flost' = (flost \/ lost)
    /\ UNCHANGED <<fdraft, fweb, finc>>

FinUnquote ==
    /\ fstage = "draft"
    /\ FinStep("unquoted", Unquote(ftext), FALSE)

\* ensure_brand_and_site: when the website is to be included and is not in
\* the result, the trim after the append has cut it off.
FinEnsure ==
    /\ fstage = "unquoted"
    /\ LET t == ensure_brand_and_site(ftext, fweb, finc)
       IN  FinStep("ensured", t, finc /\ ~HasSite(t, fweb))

FinClean ==
    /\ fstage = "ensured"
    /\ FinStep("cleaned", clean_spacing(ftext), FALSE)

FinTags ==
    /\ fstage = "cleaned"
    /\ \E extra \in Samples(TagsNeeded(ftext, MinTags), 1..SamplePool) :
          LET t == add_crypto_hashtags(ftext, MinTags, extra)
          IN  FinStep("tagged", t, fhas /\ ~HasSite(t, fweb))

FinTrim ==
    /\ fstage = "tagged"
    /\ LET t == _trim_to_tweet(ftext, TweetLimit)
       IN  FinStep("final", t, fhas /\ ~HasSite(t, fweb))

FinNext == FinUnquote \/ FinEnsure \/ FinClean \/ FinTags \/ FinTrim

\* ------------------------------------------------------------------------
\* clean_spacing on its own, applied once and then again to its result
\* ------------------------------------------------------------------------

\* The texts it is applied to: up to MaxCleanLen characters of CleanChars.
MaxCleanLen == 4

CleanChars == {"a", " ", "\n", ".", ","}

CleanTexts == UNION {[1..n -> CleanChars] : n \in 0..MaxCleanLen}

CleanInit ==
    /\ fstage = "raw"
    /\ fdraft \in CleanTexts
    /\ fweb = <<>>
    /\ finc = FALSE
    /\ ftext = fdraft
    /\ fprev = <<>>
    /\ fhas = FALSE
    /\ flost = FALSE

\* text = clean_spacing(text)
CleanStep(from, to) ==
    /\ fstage = from
    /\ fstage' = to
    /\ ftext' = clean_spacing(ftext)
    /\ fprev' = ftext
    /\ UNCHANGED <<fdraft, fweb, finc, fhas, flost>>

CleanOnce == CleanStep("raw", "once")

CleanTwice == CleanStep("once", "twice")

\* ------------------------------------------------------------------------
\* Persisted state (the three files under DATA_DIR)
\* ------------------------------------------------------------------------

\* How many days the clock goes on, and how many posts the platform accepts.
MaxDay == 1
MaxPosts == 2

\* A line of the history file as append_history_record writes it. Its
\* timestamp and tweet_ids, which nothing in the program reads, are left out.
HistoryRecord(t, w) ==
    [kind |-> "record",
     hash |-> text_hash(t),
     preview |-> Take(normalize_text(t), 200),
     has_website |-> Contains(normalize_text(t), Lower(w))]

\* A line of the history file that json.loads rejects.
GarbageLine ==
    [kind |-> "garbage", hash |-> <<>>, preview |-> <<>>, has_website |-> FALSE]

\* load_history_hashes giving up at the first line json.loads rejects
LoadStopsAtGarbage(lines) ==
    {lines[i].hash : i \in {j \in 1..Len(lines) :
                               \A k \in 1..j : lines[k].kind = "record"}}

\* load_history_hashes
load_history_hashes(lines) ==
    {lines[i].hash : i \in {j \in 1..Len(lines) : lines[j].kind = "record"}}

\* The usage file: missing, not JSON ("corrupt"), JSON that is no object
\* ("nondict"), or the object mark_site_used_today writes.
UsageFile(kind, date, used) == [kind |-> kind, date |-> date, used |-> used]

NoUsage == UsageFile("missing", 0, FALSE)

\* should_include_site_today raises (usage.get on a value that is no dict)
SiteCheckRaises(u) == u.kind = "nondict"

\* should_include_site_today: _load_site_usage gives {} for a file that is
\* missing or unreadable.
should_include_site_today(u, day) ==
    IF u.kind = "ok" THEN u.date # day \/ ~u.used ELSE TRUE

\* The prompt-index file: missing, unreadable, or {"index": n}.
PromptFile(kind, index) == [kind |-> kind, index |-> index]

\* load_prompt_index
load_prompt_index(f) == IF f.kind = "ok" THEN f.index ELSE 0

\* next_prompt: the position of the seed in PROMPTS (from 0) ...
PromptSeed(f) == load_prompt_index(f) % NumPrompts

\* save_prompt_index(idx % len(PROMPTS)): the index is not advanced.
NextPromptFileStuck(f) == PromptFile("ok", load_prompt_index(f) % NumPrompts)

\* ... and the file save_prompt_index leaves.
NextPromptFile(f) == PromptFile("ok", (load_prompt_index(f) + 1) % NumPrompts)

\* ------------------------------------------------------------------------
\* What the generation endpoint can return
\* ------------------------------------------------------------------------

\* "gm fam, wen lambo? Create your token for free today #crypto #bnb #defi"
DraftB ==
    <<"g","m"," ","f","a","m",","," ","w","e","n"," ","l","a","m","b","o","?",
      " ","C","r","e","a","t","e"," ","y","o","u","r"," ","t","o","k","e","n",
      " ","f","o","r"," ","f","r","e","e"," ","t","o","d","a","y"," ",
      "#","c","r","y","p","t","o"," ","#","b","n","b"," ","#","d","e","f","i">>

\* The same words in other letters and spacing: "GM  fam, WEN lambo? ..."
DraftB2 ==
    <<"G","M"," "," ">> \o SubSeq(DraftB, 4, 8) \o <<"W","E","N">>
        \o SubSeq(DraftB, 12, Len(DraftB))

\* "gm #bnb #web3 #defi": with its three tags it gets no more, and finalized
\* it stays under MinLength with either website.
DraftA == <<"g","m"," ","#","b","n","b"," ","#","w","e","b","3"," ",
            "#","d","e","f","i">>

MainDrafts == {DraftA, DraftB, DraftB2}

\* The finalized texts of these drafts, each with its fingerprint, taken once
\* for every website, include_site and result of random.sample.
Finalized ==
    {[website |-> w, include_site |-> i,
      text |-> finalize_tweet(d, w, i, e),
      hash |-> text_hash(finalize_tweet(d, w, i, e))] :
        d \in MainDrafts, w \in Websites, i \in BOOLEAN,
        e \in Samples(MinTags, 1..SamplePool)}

\* A ledger left by an earlier run: a line that does not parse and the
\* record of a post.
OldLedger(w) ==
    <<GarbageLine,
      HistoryRecord(finalize_tweet(DraftB, w, FALSE, <<1, 2, 3>>), w)>>

\* ------------------------------------------------------------------------
\* main
\* ------------------------------------------------------------------------

NoText == <<>>

\* Line 369: interval_seconds = max(60, POST_EVERY_HOURS * 3600)
MinInterval == 60
SecondsPerHour == 3600

\* POST_EVERY_HOURS * 3600 without the max
IntervalWithoutFloor(hours) == hours * SecondsPerHour

IntervalSeconds(hours) ==
    IF hours * SecondsPerHour > MinInterval THEN hours * SecondsPerHour
    ELSE MinInterval

\* The files main finds when it starts, and the website and POST_EVERY_HOURS
\* it is configured with.
Startups == {
    [website |-> DefaultWebsite, history |-> <<>>, usage |-> NoUsage,
     prompt_file |-> PromptFile("missing", 0), post_every_hours |-> 3],
    [website |-> DefaultWebsite, history |-> OldLedger(DefaultWebsite),
     usage |-> UsageFile("ok", 0, TRUE),
     prompt_file |-> PromptFile("ok", NumPrompts + 3), post_every_hours |-> 0],
    [website |-> AltWebsite, history |-> <<>>, usage |-> NoUsage,
     prompt_file |-> PromptFile("missing", 0), post_every_hours |-> 1],
    [website |-> AltWebsite, history |-> <<>>,
     usage |-> UsageFile("nondict", 0, FALSE),
     prompt_file |-> PromptFile("missing", 0), post_every_hours |-> -2] }

\* main up to line 370
MainInit ==
    /\ pc = "cycle"
    /\ \E st \in Startups :
        /\ website = st.website
        /\ history = st.history
        /\ usage = st.usage
        /\ prompt_file = st.prompt_file
        /\ interval_seconds = IntervalSeconds(st.post_every_hours)
    /\ today = 0
    /\ history_hashes = load_history_hashes(history)
    /\ include_site = FALSE
    /\ text = NoText
    /\ attempt = 0
    /\ accepted = {}
    /\ nAccepted = 0
    /\ sitePosts = 0
    /\ requests = 0
    /\ rejection = "none"
    /\ posted = FALSE
    /\ recorded = FALSE
    /\ failure = "none"
    /\ slept = <<>>
    /\ seeds = <<>>

\* A loop body without the "except Exception" of line 396: the exception
\* leaves main.
OuterHandlerReraises(kind) == pc' = "exited" /\ failure' = kind

\* "except Exception" of the loop body (lines 396-397): the exception is
\* printed and the loop goes on to the sleep of line 399.
OuterHandler(kind) == pc' = "sleep" /\ failure' = kind

\* "except Exception" around the publishing (lines 391-395): the exception is
\* printed and the loop goes on to the sleep of line 399.
InnerHandler(kind) == pc' = "sleep" /\ failure' = kind

\* Line 374: include_site = should_include_site_today()
Begin ==
    /\ pc = "cycle"
    /\ slept' = <<>>
    /\ IF SiteCheckRaises(usage)
       THEN /\ OuterHandler("usage")
            /\ UNCHANGED <<include_site, attempt>>
       ELSE /\ include_site' = should_include_site_today(usage, today)
            /\ attempt' = 1
            /\ pc' = "attempt"
            /\ UNCHANGED failure
    /\ UNCHANGED <<interval_seconds, seeds,
                   website, history, usage, prompt_file, today,
                   history_hashes, text, accepted, nAccepted, sitePosts,
                   requests, rejection, posted, recorded>>

\* range(1, max_attempts + 2): one attempt too many.
NextAttemptOffByOne ==
    IF attempt <= MaxAttempts
    THEN attempt' = attempt + 1 /\ pc' = "attempt" /\ UNCHANGED text
    ELSE attempt' = 0 /\ pc' = "skip_sleep" /\ text' = NoText

\* "continue" in the loop of generate_viral_tweet; after the last attempt the
\* function returns None and main sleeps (line 378) and continues.
NextAttempt ==
    IF attempt < MaxAttempts
    THEN attempt' = attempt + 1 /\ pc' = "attempt" /\ UNCHANGED text
    ELSE attempt' = 0 /\ pc' = "skip_sleep" /\ text' = NoText

\* next_prompt raises: save_prompt_index cannot write the file.
AttemptSaveFails ==
    /\ pc = "attempt"
    /\ attempt' = 0
    /\ OuterHandler("prompt")
    /\ UNCHANGED <<interval_seconds, slept, seeds,
                   website, history, usage, prompt_file, today,
                   history_hashes, include_site, text, accepted, nAccepted,
                   sitePosts, requests, rejection, posted, recorded>>

\* "return None" in the place of the "continue" of lines 335 and 337.
GenFailureReturnsNone == attempt' = 0 /\ pc' = "skip_sleep" /\ text' = NoText

\* Lines 331-337: the generation has raised, or has returned the empty text,
\* and the loop continues.
GenFailure == NextAttempt

\* deepseek_generate_text raises, or returns the empty text.
AttemptGenFails ==
    /\ pc = "attempt"
    /\ prompt_file' = NextPromptFile(prompt_file)
    /\ requests' = requests + 1
    /\ rejection' = "gen"
    /\ seeds' = Append(seeds, PromptSeed(prompt_file))
    /\ GenFailure
    /\ UNCHANGED <<interval_seconds, slept,
                   website, history, usage, today, history_hashes,
                   include_site, accepted, nAccepted, sitePosts, posted,
                   recorded, failure>>

\* The gate without the test of line 345.
GateWithoutFloor(c, hashes) ==
    IF c.text = <<>> THEN "gen"
    ELSE IF c.hash \in hashes THEN "duplicate"
    ELSE "none"

\* The gate without the test of line 342.
GateWithoutHistory(c, hashes) ==
    IF c.text = <<>> THEN "gen"
    ELSE IF Len(c.text) < MinLength THEN "short"
    ELSE "none"

\* The gate of generate_viral_tweet (lines 339-347): why the candidate is not
\* returned, "none" when it is returned.
Gate(c, hashes) ==
    IF c.text = <<>> THEN "gen"
    ELSE IF c.hash \in hashes THEN "duplicate"
    ELSE IF Len(c.text) < MinLength THEN "short"
    ELSE "none"

\* deepseek_generate_text returns a draft; it is finalized and gated.
AttemptCandidate ==
    /\ pc = "attempt"
    /\ prompt_file' = NextPromptFile(prompt_file)
    /\ \E c \in Finalized :
        /\ c.website = website
        /\ c.include_site = include_site
        /\ IF Gate(c, history_hashes) = "none"
           THEN /\ text' = c.text
                /\ attempt' = 0
                /\ requests' = 0
                /\ rejection' = "none"
                /\ seeds' = <<>>
                /\ pc' = "post"
           ELSE /\ requests' = requests + 1
                /\ rejection' = Gate(c, history_hashes)
                /\ seeds' = Append(seeds, PromptSeed(prompt_file))
                /\ NextAttempt
    /\ UNCHANGED <<interval_seconds, slept,
                   website, history, usage, today, history_hashes,
                   include_site, accepted, nAccepted, sitePosts, posted,
                   recorded, failure>>

\* The statuses the platform answers with.
PostStatuses == {200, 201, 403, 429}

\* post_tweet raises unless the status is 200 or 201.
PostAccepted(status) == status \in {200, 201}

\* Lines 382-385: post_tweet(text), then the tweet id is looked up in the
\* answer. The platform accepts MaxPosts posts at most.
Post ==
    /\ pc = "post"
    /\ \E status \in PostStatuses, has_id \in BOOLEAN :
        IF PostAccepted(status)
        THEN /\ nAccepted < MaxPosts
             /\ accepted' = accepted \cup {text_hash(text)}
             /\ nAccepted' = nAccepted + 1
             /\ posted' = TRUE
             /\ IF has_id
                THEN /\ pc' = "record"
                     /\ sitePosts' = sitePosts + (IF include_site THEN 1 ELSE 0)
                     /\ UNCHANGED failure
                ELSE /\ InnerHandler("noid")
                     /\ UNCHANGED sitePosts
        ELSE /\ has_id = FALSE
             /\ InnerHandler("post")
             /\ UNCHANGED <<accepted, nAccepted, sitePosts, posted>>
    /\ UNCHANGED <<interval_seconds, slept, seeds,
                   website, history, usage, prompt_file, today,
                   history_hashes, include_site, text, attempt, requests,
                   rejection, recorded>>

\* The record written with open(HISTORY_PATH, "w")
RecordOverwrites ==
    /\ pc = "record"
    /\ history' = <<HistoryRecord(text, website)>>
    /\ history_hashes' = history_hashes \cup {text_hash(text)}
    /\ recorded' = TRUE
    /\ pc' = "mark"
    /\ UNCHANGED <<interval_seconds, slept, seeds,
                   website, usage, prompt_file, today, include_site, text,
                   attempt, accepted, nAccepted, sitePosts, requests,
                   rejection, posted, failure>>

\* Lines 386-387 without line 387
RecordWithoutAdd ==
    /\ pc = "record"
    /\ history' = Append(history, HistoryRecord(text, website))
    /\ UNCHANGED history_hashes
    /\ recorded' = TRUE
    /\ pc' = "mark"
    /\ UNCHANGED <<interval_seconds, slept, seeds,
                   website, usage, prompt_file, today, include_site, text,
                   attempt, accepted, nAccepted, sitePosts, requests,
                   rejection, posted, failure>>

\* Lines 386-387: append_history_record(text, [tweet_id]) and
\* history_hashes.add(text_hash(text))
Record ==
    /\ pc = "record"
    /\ history' = Append(history, HistoryRecord(text, website))
    /\ history_hashes' = history_hashes \cup {text_hash(text)}
    /\ recorded' = TRUE
    /\ pc' = "mark"
    /\ UNCHANGED <<interval_seconds, slept, seeds,
                   website, usage, prompt_file, today, include_site, text,
                   attempt, accepted, nAccepted, sitePosts, requests,
                   rejection, posted, failure>>

\* append_history_record raises: nothing is appended.
RecordFails ==
    /\ pc = "record"
    /\ InnerHandler("append")
    /\ UNCHANGED <<interval_seconds, slept, seeds,
                   website, history, usage, prompt_file, today,
                   history_hashes, include_site, text, attempt, accepted,
                   nAccepted, sitePosts, requests, rejection, posted, recorded>>

\* The condition of line 388.
MarksSite == include_site /\ Contains(normalize_text(text), Lower(website))

\* Lines 388-390, mark_site_used_today() writing the file
Mark ==
    /\ pc = "mark"
    /\ IF MarksSite
       THEN usage' = UsageFile("ok", today, TRUE)
       ELSE UNCHANGED usage
    /\ pc' = "sleep"
    /\ UNCHANGED <<interval_seconds, slept, seeds,
                   website, history, prompt_file, today, history_hashes,
                   include_site, text, attempt, accepted, nAccepted,
                   sitePosts, requests, rejection, posted, recorded, failure>>

\* mark_site_used_today raises: the file is left as it was.
MarkFails ==
    /\ pc = "mark"
    /\ MarksSite
    /\ InnerHandler("mark")
    /\ UNCHANGED <<interval_seconds, slept, seeds,
                   website, history, usage, prompt_file, today,
                   history_hashes, include_site, text, attempt, accepted,
                   nAccepted, sitePosts, requests, rejection, posted, recorded>>

\* time.sleep(interval_seconds) returns and the iteration ends: its locals
\* are dead, and so is what is remembered of it.
EndCycle ==
    /\ slept' = Append(slept, interval_seconds)
    /\ pc' = "cycle"
    /\ include_site' = FALSE
    /\ text' = NoText
    /\ requests' = 0
    /\ rejection' = "none"
    /\ posted' = FALSE
    /\ recorded' = FALSE
    /\ failure' = "none"
    /\ seeds' = <<>>
    /\ UNCHANGED <<interval_seconds,
                   website, history, usage, prompt_file, today,
                   history_hashes, attempt, accepted, nAccepted, sitePosts>>

\* Line 378 and the continue of line 379
SkipSleep == pc = "skip_sleep" /\ EndCycle

\* Line 399
Sleep == pc = "sleep" /\ EndCycle

\* Midnight (UTC) passes.
Tick ==
    /\ today < MaxDay
    /\ today' = today + 1
    /\ sitePosts' = 0
    /\ UNCHANGED <<pc, interval_seconds, slept, seeds,
                   website, history, usage, prompt_file, history_hashes,
                   include_site, text, attempt, accepted, nAccepted, requests,
                   rejection, posted, recorded, failure>>

\* The steps of the process.
Step ==
    \/ Begin
    \/ AttemptSaveFails
    \/ AttemptGenFails
    \/ AttemptCandidate
    \/ Post
    \/ Record
    \/ RecordFails
    \/ Mark
    \/ MarkFails
    \/ SkipSleep
    \/ Sleep

MainNext == Step \/ Tick

\* ------------------------------------------------------------------------
\* The authorization flow (src/auth.py)
\* ------------------------------------------------------------------------

\* Python's None, and a query string without the parameter
None == "None"
Absent == "absent"

\* The authorization codes and the state values a request can carry
Codes == {"c1", "c2"}
States == {"s0", "s1"}

\* How many requests the callback server takes
MaxRequests == 2

\* The requests that reach 127.0.0.1:8080: a path and a query string, given
\* by the value of its code and state parameters ("" for "code=")
Requests ==
    [path : {"/callback", "/favicon.ico"},
     code : Codes \cup {Absent, ""},
     state : States \cup {Absent, ""}]

\* qs.get(name, [None])[0] of a query parsed by urllib.parse.parse_qs, which
\* leaves out the parameters with a blank value
QsFirst(value) == IF value \in {Absent, ""} THEN None ELSE value

\* time.time() at line 98, the answers of TOKEN_URL and their expires_in
\* (0 when the answer has none)
Now == 1000
SafetyMargin == 60
StatusCodes == {200, 400}
ExpiresIn == {0, 7200}

NoTokens == [grant |-> None, expires_at |-> 0]

\* The token exchange_code_for_token returns for an answer of status 200:
\* what the platform granted for the code, with expires_at added
Token(c, expires_in) ==
    [grant |-> c, expires_at |-> Now + expires_in - SafetyMargin]

\* main is about to call start_local_server
AuthInit ==
    /\ apc = "start"
    /\ state \in States
    /\ auth_code = None
    /\ auth_state = None
    /\ done_event = FALSE
    /\ serving = FALSE
    /\ hpc = "idle"
    /\ hcode = None
    /\ hstate = None
    /\ served = 0
    /\ callbacks = {}
    /\ code = None
    /\ recv_state = None
    /\ sent_code = None
    /\ status_code = 0
    /\ tokens = NoTokens
    /\ tokens_file = NoTokens
    /\ timed_out = FALSE
    /\ afailure = "none"

\* main raises: the process ends, and the daemon thread with it
Raise(kind) ==
    /\ apc' = "failed"
    /\ afailure' = kind
    /\ serving' = FALSE

\* start_local_server
StartLocalServer ==
    /\ apc = "start"
    /\ auth_code' = None
    /\ auth_state' = None
    /\ done_event' = FALSE
    /\ serving' = TRUE
    /\ apc' = "wait"
    /\ UNCHANGED <<state, hpc, hcode, hstate, served, callbacks, code,
                   recv_state, sent_code, status_code, tokens, tokens_file,
                   timed_out, afailure>>

\* start_local_server, the port being taken
StartLocalServerFails ==
    /\ apc = "start"
    /\ Raise("OSError")
    /\ UNCHANGED <<state, auth_code, auth_state, done_event, hpc, hcode,
                   hstate, served, callbacks, code, recv_state, sent_code,
                   status_code, tokens, tokens_file, timed_out>>

\* The server thread can take a request
Accepting ==
    /\ serving
    /\ hpc = "idle"
    /\ served < MaxRequests

\* do_GET, a path other than /callback: lines 49-55
DoGetNotFound ==
    /\ Accepting
    /\ \E req \in Requests : req.path # "/callback"
    /\ served' = served + 1
    /\ UNCHANGED <<apc, state, auth_code, auth_state, done_event, serving,
                   hpc, hcode, hstate, callbacks, code, recv_state,
                   sent_code, status_code, tokens, tokens_file, timed_out,
                   afailure>>

\* do_GET, /callback: lines 49-58
DoGetParse ==
    /\ Accepting
    /\ \E req \in Requests :
        /\ req.path = "/callback"
        /\ hcode' = QsFirst(req.code)
        /\ hstate' = QsFirst(req.state)
        /\ callbacks' = callbacks \cup
                {[code |-> QsFirst(req.code), state |-> QsFirst(req.state)]}
    /\ served' = served + 1
    /\ hpc' = "code"
    /\ UNCHANGED <<apc, state, auth_code, auth_state, done_event, serving,
                   code, recv_state, sent_code, status_code, tokens,
                   tokens_file, timed_out, afailure>>

\* do_GET, line 59
DoGetStoreCode ==
    /\ serving
    /\ hpc = "code"
    /\ auth_code' = hcode
    /\ hpc' = "state"
    /\ UNCHANGED <<apc, state, auth_state, done_event, serving, hcode,
                   hstate, served, callbacks, code, recv_state, sent_code,
                   status_code, tokens, tokens_file, timed_out, afailure>>

\* do_GET, line 60
DoGetStoreState ==
    /\ serving
    /\ hpc = "state"
    /\ auth_state' = hstate
    /\ hpc' = "signal"
    /\ UNCHANGED <<apc, state, auth_code, done_event, serving, hcode,
                   hstate, served, callbacks, code, recv_state, sent_code,
                   status_code, tokens, tokens_file, timed_out, afailure>>

\* do_GET, lines 61-66
DoGetSignal ==
    /\ serving
    /\ hpc = "signal"
    /\ done_event' = TRUE
    /\ hpc' = "idle"
    /\ UNCHANGED <<apc, state, auth_code, auth_state, serving, hcode,
                   hstate, served, callbacks, code, recv_state, sent_code,
                   status_code, tokens, tokens_file, timed_out, afailure>>

\* do_GET, lines 61-64, the client having closed the connection: the
\* exception ends the request before line 66
DoGetSendFails ==
    /\ serving
    /\ hpc = "signal"
    /\ hpc' = "idle"
    /\ UNCHANGED <<apc, state, auth_code, auth_state, done_event, serving,
                   hcode, hstate, served, callbacks, code, recv_state,
                   sent_code, status_code, tokens, tokens_file, timed_out,
                   afailure>>

\* main, line 134: the event is set
WaitDone ==
    /\ apc = "wait"
    /\ done_event
    /\ apc' = "read_code"
    /\ UNCHANGED <<state, auth_code, auth_state, done_event, serving, hpc,
                   hcode, hstate, served, callbacks, code, recv_state,
                   sent_code, status_code, tokens, tokens_file, timed_out,
                   afailure>>

\* main, line 134: the 300 seconds are over and the event is not set
WaitTimesOut ==
    /\ apc = "wait"
    /\ ~done_event
    /\ timed_out' = TRUE
    /\ apc' = "shutdown"
    /\ UNCHANGED <<state, auth_code, auth_state, done_event, serving, hpc,
                   hcode, hstate, served, callbacks, code, recv_state,
                   sent_code, status_code, tokens, tokens_file, afailure>>

\* main, line 139
ReadCode ==
    /\ apc = "read_code"
    /\ code' = auth_code
    /\ apc' = "read_state"
    /\ UNCHANGED <<state, auth_code, auth_state, done_event, serving, hpc,
                   hcode, hstate, served, callbacks, recv_state, sent_code,
                   status_code, tokens, tokens_file, timed_out, afailure>>

\* main, line 140
ReadState ==
    /\ apc = "read_state"
    /\ recv_state' = auth_state
    /\ apc' = "shutdown"
    /\ UNCHANGED <<state, auth_code, auth_state, done_event, serving, hpc,
                   hcode, hstate, served, callbacks, code, sent_code,
                   status_code, tokens, tokens_file, timed_out, afailure>>

\* main, server.shutdown() at line 141, and at line 135 followed by the
\* raise of line 136: it returns when serve_forever has left its loop, which
\* it does between two requests
Shutdown ==
    /\ apc = "shutdown"
    /\ hpc = "idle"
    /\ IF timed_out
         THEN Raise("TimeoutError")
         ELSE /\ serving' = FALSE
              /\ apc' = "check"
              /\ UNCHANGED afailure
    /\ UNCHANGED <<state, auth_code, auth_state, done_event, hpc, hcode,
                   hstate, served, callbacks, code, recv_state, sent_code,
                   status_code, tokens, tokens_file, timed_out>>

\* main, lines 143-146
CheckCallback ==
    /\ apc = "check"
    /\ IF code = None
         THEN Raise("NoCode")
         ELSE IF recv_state # state
                THEN Raise("StateMismatch")
                ELSE /\ apc' = "exchange"
                     /\ UNCHANGED <<afailure, serving>>
    /\ UNCHANGED <<state, auth_code, auth_state, done_event, hpc, hcode,
                   hstate, served, callbacks, code, recv_state, sent_code,
                   status_code, tokens, tokens_file, timed_out>>

\* main, line 149: exchange_code_for_token, the request being answered
ExchangeCodeForToken ==
    /\ apc = "exchange"
    /\ sent_code' = code
    /\ \E st \in StatusCodes, expires_in \in ExpiresIn :
        /\ status_code' = st
        /\ IF st # 200
             THEN /\ Raise("ExchangeFailed")
                  /\ UNCHANGED tokens
             ELSE /\ tokens' = Token(code, expires_in)
                  /\ apc' = "save"
                  /\ UNCHANGED <<afailure, serving>>
    /\ UNCHANGED <<state, auth_code, auth_state, done_event, hpc, hcode,
                   hstate, served, callbacks, code, recv_state, tokens_file,
                   timed_out>>

\* main, line 149: requests.post raises (no answer within its 30 seconds)
ExchangeRaises ==
    /\ apc = "exchange"
    /\ sent_code' = code
    /\ Raise("RequestException")
    /\ UNCHANGED <<state, auth_code, auth_state, done_event, hpc, hcode,
                   hstate, served, callbacks, code, recv_state, status_code,
                   tokens, tokens_file, timed_out>>

\* main, lines 150-151: save_tokens
SaveTokens ==
    /\ apc = "save"
    /\ tokens_file' = tokens
    /\ apc' = "done"
    /\ UNCHANGED <<state, auth_code, auth_state, done_event, serving, hpc,
                   hcode, hstate, served, callbacks, code, recv_state,
                   sent_code, status_code, tokens, timed_out, afailure>>

\* main, line 150: open(TOKENS_PATH, 'w') raises
SaveTokensFails ==
    /\ apc = "save"
    /\ Raise("OSError")
    /\ UNCHANGED <<state, auth_code, auth_state, done_event, hpc, hcode,
                   hstate, served, callbacks, code, recv_state, sent_code,
                   status_code, tokens, tokens_file, timed_out>>

\* ------------------------------------------------------------------------
\* Specifications
\* ------------------------------------------------------------------------

\* The finalizer is not running.
FinIdle ==
    /\ fstage = "idle"
    /\ fdraft = <<>>
    /\ fweb = <<>>
    /\ finc = FALSE
    /\ ftext = <<>>
    /\ fprev = <<>>
    /\ fhas = FALSE
    /\ flost = FALSE

\* main is not running.
MainIdle ==
    /\ pc = "idle"
    /\ website = <<>>
    /\ history = <<>>
    /\ usage = NoUsage
    /\ prompt_file = PromptFile("missing", 0)
    /\ today = 0
    /\ history_hashes = {}
    /\ include_site = FALSE
    /\ text = NoText
    /\ attempt = 0
    /\ accepted = {}
    /\ nAccepted = 0
    /\ sitePosts = 0
    /\ requests = 0
    /\ rejection = "none"
    /\ posted = FALSE
    /\ recorded = FALSE
    /\ failure = "none"
    /\ interval_seconds = 0
    /\ slept = <<>>
    /\ seeds = <<>>

\* The authorization flow is not running.
AuthIdle ==
    /\ apc = "idle"
    /\ state = None
    /\ auth_code = None
    /\ auth_state = None
    /\ done_event = FALSE
    /\ serving = FALSE
    /\ hpc = "idle"
    /\ hcode = None
    /\ hstate = None
    /\ served = 0
    /\ callbacks = {}
    /\ code = None
    /\ recv_state = None
    /\ sent_code = None
    /\ status_code = 0
    /\ tokens = NoTokens
    /\ tokens_file = NoTokens
    /\ timed_out = FALSE
    /\ afailure = "none"

Init == MainInit /\ FinIdle /\ AuthIdle

Next ==
    \/ Begin /\ UNCHANGED <<fvars, avars>>
    \/ AttemptSaveFails /\ UNCHANGED <<fvars, avars>>
    \/ AttemptGenFails /\ UNCHANGED <<fvars, avars>>
    \/ AttemptCandidate /\ UNCHANGED <<fvars, avars>>
    \/ Post /\ UNCHANGED <<fvars, avars>>
    \/ Record /\ UNCHANGED <<fvars, avars>>
    \/ RecordFails /\ UNCHANGED <<fvars, avars>>
    \/ Mark /\ UNCHANGED <<fvars, avars>>
    \/ MarkFails /\ UNCHANGED <<fvars, avars>>
    \/ SkipSleep /\ UNCHANGED <<fvars, avars>>
    \/ Sleep /\ UNCHANGED <<fvars, avars>>
    \/ Tick /\ UNCHANGED <<fvars, avars>>

\* The bot: main of src/bot.py
Spec == Init /\ [][Next]_vars

\* The bot, whose sleeps end: time.sleep(interval_seconds) returns when the
\* interval is over, at line 399 as at line 378.
FairSpec ==
    /\ Spec
    /\ WF_vars(Sleep /\ UNCHANGED <<fvars, avars>>)
    /\ WF_vars(SkipSleep /\ UNCHANGED <<fvars, avars>>)

FinSpecInit == FinInit /\ MainIdle /\ AuthIdle

FinSpecNext ==
    \/ FinUnquote /\ UNCHANGED <<mvars, avars>>
    \/ FinEnsure /\ UNCHANGED <<mvars, avars>>
    \/ FinClean /\ UNCHANGED <<mvars, avars>>
    \/ FinTags /\ UNCHANGED <<mvars, avars>>
    \/ FinTrim /\ UNCHANGED <<mvars, avars>>

\* finalize_tweet on one draft
FinSpec == FinSpecInit /\ [][FinSpecNext]_vars

CleanSpecInit == CleanInit /\ MainIdle /\ AuthIdle

CleanSpecNext ==
    \/ CleanOnce /\ UNCHANGED <<mvars, avars>>
    \/ CleanTwice /\ UNCHANGED <<mvars, avars>>

\* clean_spacing on one text
CleanSpec == CleanSpecInit /\ [][CleanSpecNext]_vars

AuthSpecInit == AuthInit /\ MainIdle /\ FinIdle

AuthSpecNext ==
    \/ StartLocalServer /\ UNCHANGED <<mvars, fvars>>
    \/ StartLocalServerFails /\ UNCHANGED <<mvars, fvars>>
    \/ DoGetNotFound /\ UNCHANGED <<mvars, fvars>>
    \/ DoGetParse /\ UNCHANGED <<mvars, fvars>>
    \/ DoGetStoreCode /\ UNCHANGED <<mvars, fvars>>
    \/ DoGetStoreState /\ UNCHANGED <<mvars, fvars>>
    \/ DoGetSignal /\ UNCHANGED <<mvars, fvars>>
    \/ DoGetSendFails /\ UNCHANGED <<mvars, fvars>>
    \/ WaitDone /\ UNCHANGED <<mvars, fvars>>
    \/ WaitTimesOut /\ UNCHANGED <<mvars, fvars>>
    \/ ReadCode /\ UNCHANGED <<mvars, fvars>>
    \/ ReadState /\ UNCHANGED <<mvars, fvars>>
    \/ Shutdown /\ UNCHANGED <<mvars, fvars>>
    \/ CheckCallback /\ UNCHANGED <<mvars, fvars>>
    \/ ExchangeCodeForToken /\ UNCHANGED <<mvars, fvars>>
    \/ ExchangeRaises /\ UNCHANGED <<mvars, fvars>>
    \/ SaveTokens /\ UNCHANGED <<mvars, fvars>>
    \/ SaveTokensFails /\ UNCHANGED <<mvars, fvars>>

\* main of src/auth.py and its callback server
AuthSpec == AuthSpecInit /\ [][AuthSpecNext]_vars

\* ------------------------------------------------------------------------
\* The finalizer's contract
\* ------------------------------------------------------------------------

\* C1: whatever the draft, the website and include_site, the text
\* finalize_tweet returns has at most 280 characters.
C1_LengthLimit == fstage = "final" => Len(ftext) <= TweetLimit

\* A draft longer than the limit has been finalized: it was cut to exactly the
\* limit and ends with the ellipsis.
C1_Witness ==
    /\ fstage = "final"
    /\ Len(fdraft) > TweetLimit
    /\ Len(ftext) = TweetLimit
    /\ ftext[TweetLimit] = Ellipsis

\* ------------------------------------------------------------------------
\* The loop of main
\* ------------------------------------------------------------------------

\* C2: no failure inside a cycle ends the loop of main: main never exits,
\* a cycle in which something has failed is at the sleep of line 399 having
\* handed nothing on, and after every failure a further cycle begins.
C2_LoopSurvives ==
    /\ [](pc # "exited")
    /\ [](failure # "none" => pc = "sleep")
    /\ (failure # "none") ~> (pc = "cycle" /\ failure = "none")

\* The prompt index could not be saved in a run that has published before:
\* the exception was caught and the loop is at its sleep.
C2_Witness == pc = "sleep" /\ failure = "prompt" /\ nAccepted > 0

\* C3: when a cycle is over, it has appended a record to the ledger if and
\* only if its publish request was answered with 200 or 201.
C3_RecordIffPublished ==
    pc \in {"sleep", "skip_sleep"} => (recorded <=> posted)

\* C4: a text that generate_viral_tweet returns, and main is about to hand to
\* post_tweet, has a fingerprint that is neither in the set the function was
\* given nor on a record of the ledger.
C4_GateRejectsKnown ==
    pc = "post" =>
        /\ text_hash(text) \notin history_hashes
        /\ \A i \in 1..Len(history) :
               history[i].kind = "record" => history[i].hash # text_hash(text)

\* With a record in the ledger, the gate has just turned a candidate down as
\* a duplicate and the loop is at its next attempt.
C4_Witness ==
    /\ pc = "attempt"
    /\ rejection = "duplicate"
    /\ attempt > 1
    /\ history_hashes # {}

\* C5: in one run no two publish requests that the platform accepted carry
\* texts with the same fingerprint: the accepted requests are as many as
\* their fingerprints.
C5_NoRepeats == nAccepted = Cardinality(accepted)

\* C6: generate_viral_tweet issues at most max_attempts generation requests;
\* a rejection at the last attempt makes it return None without an exception;
\* a cycle that got None has published nothing, recorded nothing and is at the
\* sleep of line 378, from which nothing but the next cycle follows.
C6_RetryBounded ==
    /\ [](requests <= MaxAttempts)
    /\ [](pc = "attempt" => (attempt <= MaxAttempts /\ requests = attempt - 1))
    /\ [](pc = "skip_sleep" =>
            /\ requests = MaxAttempts
            /\ text = NoText
            /\ ~posted /\ ~recorded
            /\ failure = "none")
    /\ [][(pc = "attempt" /\ attempt = MaxAttempts /\ requests' = requests + 1)
            => (pc' = "skip_sleep" /\ failure' = "none")]_vars
    /\ [][(pc = "skip_sleep" /\ pc' # pc)
            => (pc' = "cycle" /\ history' = history /\ nAccepted' = nAccepted
                /\ history_hashes' = history_hashes)]_vars

\* All attempts of a cycle were used up, in a run that has published before.
C6_Witness ==
    /\ pc = "skip_sleep"
    /\ requests = MaxAttempts
    /\ nAccepted > 0

\* C7: a generation request that raises or returns the empty text, while
\* attempts remain, uses up one attempt and the loop is at the next one; the
\* cycle is not aborted.
C7_GenFailureRetries ==
    [][(pc = "attempt" /\ attempt < MaxAttempts
        /\ rejection' = "gen" /\ requests' = requests + 1)
        => (pc' = "attempt" /\ attempt' = attempt + 1 /\ failure' = "none")]_vars

\* The generation has just failed, and not for the first time in this cycle:
\* the loop is at a later attempt.
C7_Witness ==
    /\ pc = "attempt"
    /\ rejection = "gen"
    /\ attempt = requests + 1
    /\ attempt > 2

\* C8: once a cycle with include_site = true has published on a day,
\* should_include_site_today returns false to every later cycle of that day,
\* and so at most one post of a day is published with include_site = true.
C8_OneSitePostPerDay ==
    /\ (pc = "attempt" /\ sitePosts >= 1) => ~include_site
    /\ sitePosts <= 1

\* ------------------------------------------------------------------------
\* The website in the finalized text
\* ------------------------------------------------------------------------

\* C9: when include_site is true and no trim has taken the website out of
\* the text, the text finalize_tweet returns contains the website, whatever
\* the case of its letters.
C9_SiteIncluded == (fstage = "final" /\ finc /\ ~flost) => fhas

\* C10: when include_site is false, neither the text ensure_brand_and_site
\* returns nor the text finalize_tweet returns contains the website, whatever
\* the case of its letters.
C10_SiteRemoved == (fstage \in {"ensured", "final"} /\ ~finc) => ~fhas

\* ------------------------------------------------------------------------
\* Hashtags and spacing
\* ------------------------------------------------------------------------

\* C11: add_crypto_hashtags leaves a text with min_tags tags of the pool as
\* it is; to a text with fewer it appends as many tags as are missing, and
\* the result, unless the trim has cut it, holds at least min_tags distinct
\* tags of the pool.
C11_TagQuota ==
    fstage = "tagged" =>
        LET have == Cardinality(TagsInText(fprev))
            marks(t) == Cardinality({i \in 1..Len(t) : t[i] = "#"})
        IN  IF have >= MinTags
            THEN ftext = fprev
            ELSE ftext[Len(ftext)] # Ellipsis =>
                    /\ marks(ftext) = marks(fprev) + (MinTags - have)
                    /\ Cardinality(TagsInText(ftext)) >= MinTags

\* C14: the text clean_spacing returns has no two whitespace characters in a
\* row, no whitespace at either end, no whitespace before . , ! or ?, and
\* after each of these that is not its last character exactly one space.
C14_SpacingFixed ==
    fstage = "once" =>
        LET n == Len(ftext)
        IN  /\ \A i \in 1..(n - 1) :
                ~(ftext[i] \in Whitespace /\ ftext[i + 1] \in Whitespace)
            /\ n > 0 => (ftext[1] \notin Whitespace /\ ftext[n] \notin Whitespace)
            /\ \A i \in 1..(n - 1) :
                ~(ftext[i] \in Whitespace /\ ftext[i + 1] \in Punct)
            /\ \A i \in 1..(n - 1) :
                ftext[i] \in Punct =>
                    /\ ftext[i + 1] = " "
                    /\ (i + 2 <= n => ftext[i + 2] \notin Whitespace)

\* C15: clean_spacing applied to its own result returns it unchanged.
C15_CleanIdempotent == fstage = "twice" => ftext = fprev

\* The second application was given a text the first had changed, one with a
\* space put between two full stops, and returned it as it was.
C15_Witness ==
    /\ fstage = "twice"
    /\ fprev # fdraft
    /\ Contains(fprev, <<".", " ", ".">>)
    /\ ftext = fprev

\* ------------------------------------------------------------------------
\* The gate, the sleep and the files
\* ------------------------------------------------------------------------

\* C12: a text generate_viral_tweet has returned, which main goes on to post,
\* record and mark, is never shorter than 40 characters.
C12_LengthFloor ==
    /\ pc \in {"post", "record", "mark"} => Len(text) >= MinLength
    /\ text # NoText => Len(text) >= MinLength

\* The gate has just turned down a candidate as too short, and the loop is
\* at its next attempt.
C12_Witness ==
    /\ pc = "attempt"
    /\ rejection = "short"
    /\ attempt > 1

\* C13: a candidate that shares its normalized words with the previews of the
\* last ledger records is rejected and never published. Whatever the
\* threshold and the number of records looked at, a text all of whose words
\* are words of the preview of the last record is such a candidate: it is
\* never handed to post_tweet.
C13_NearDuplicateRejected ==
    LET words(t) ==
            LET n == Len(t)
                starts == {i \in 1..n : t[i] # " " /\ (i = 1 \/ t[i - 1] = " ")}
                end(i) == CHOOSE j \in i..n :
                              /\ j = n \/ t[j + 1] = " "
                              /\ \A k \in i..j : t[k] # " "
            IN  {SubSeq(t, i, end(i)) : i \in starts}
        last == history[Len(history)]
    IN  (pc = "post" /\ history # <<>> /\ last.kind = "record")
            => ~(words(normalize_text(text)) \subseteq words(last.preview))

\* C16: the seconds main sleeps are max(60, POST_EVERY_HOURS * 3600), never
\* fewer than 60; nothing is slept inside a cycle; a cycle begins only when
\* exactly one sleep of that length has followed the one before, whatever the
\* outcome of that one was; and a sleep is followed by the next cycle.
C16_OneSleepPerCycle ==
    /\ [](pc # "idle" => interval_seconds >= MinInterval)
    /\ [](pc \notin {"cycle", "idle"} => slept = <<>>)
    /\ [][(pc' = "cycle" /\ pc # "cycle")
            => (pc \in {"sleep", "skip_sleep"}
                /\ slept' = <<interval_seconds>>)]_vars
    /\ [][interval_seconds' = interval_seconds]_vars
    /\ (pc \in {"sleep", "skip_sleep"}) ~> (pc = "cycle")

\* With POST_EVERY_HOURS = 0 a cycle that published has been followed by one
\* sleep of 60 seconds, and the next cycle is about to begin.
C16_Witness ==
    /\ pc = "cycle"
    /\ interval_seconds = MinInterval
    /\ slept = <<MinInterval>>
    /\ nAccepted > 0

\* C17: a file that does not exist is an empty start and raises nothing: with
\* no history there are no fingerprints, with no usage file
\* should_include_site_today returns TRUE, with no prompt-index file
\* load_prompt_index returns 0 (the first seed is used and 1 is saved); and a
\* line of the history file that cannot be parsed does not cost the
\* fingerprint of any record.
C17_MissingIsEmptyStart ==
    /\ [](history = <<>> => history_hashes = {})
    /\ [](usage.kind = "missing" => failure # "usage")
    /\ []((pc = "attempt" /\ usage.kind = "missing") => include_site)
    /\ [][(pc = "attempt" /\ prompt_file.kind = "missing"
           /\ prompt_file' # prompt_file)
            => (prompt_file' = PromptFile("ok", 1)
                /\ seeds' \in {<<>>, <<0>>})]_vars
    /\ [](\A i \in 1..Len(history) :
            history[i].kind = "record" => history[i].hash \in history_hashes)

\* The history file began with a line that is no JSON; the record after it
\* was loaded all the same, and the gate has turned down a candidate with its
\* fingerprint.
C17_Witness ==
    /\ Len(history) >= 2
    /\ history[1].kind = "garbage"
    /\ history[2].hash \in history_hashes
    /\ pc = "attempt"
    /\ rejection = "duplicate"

\* C18: the lines of the history file only grow: every step leaves the lines
\* there were as they were, and adds at most one, which a cycle does at most
\* once.
C18_AppendOnly ==
    [][/\ Len(history') >= Len(history)
       /\ SubSeq(history', 1, Len(history)) = history
       /\ history' # history =>
            (Len(history') = Len(history) + 1 /\ ~recorded /\ recorded')]_vars

\* Two cycles have each appended their record.
C18_Witness ==
    /\ pc = "mark"
    /\ recorded
    /\ Len(history) = 2
    /\ history[1].kind = "record"
    /\ history[2].kind = "record"
    /\ history[1] # history[2]

\* C19: every attempt that issues a generation request leaves the stored
\* index advanced by one modulo len(PROMPTS), within 0..len(PROMPTS)-1; the
\* seeds of the attempts of a cycle follow one another in the cyclic order of
\* PROMPTS, and no two of them are the same.
C19_PromptRotation ==
    /\ [][(pc = "attempt" /\ attempt' # attempt /\ failure' = "none") =>
            /\ prompt_file'.kind = "ok"
            /\ prompt_file'.index = (load_prompt_index(prompt_file) + 1) % NumPrompts
            /\ prompt_file'.index \in 0..(NumPrompts - 1)
            /\ \A i \in 1..Len(seeds) : seeds[i] # PromptSeed(prompt_file)
            /\ seeds # <<>> =>
                 PromptSeed(prompt_file) = (seeds[Len(seeds)] + 1) % NumPrompts]_vars
    /\ [](Len(seeds) <= MaxAttempts)
    /\ [](\A i, j \in 1..Len(seeds) : i # j => seeds[i] # seeds[j])
    /\ [](\A i \in 1..(Len(seeds) - 1) : seeds[i + 1] = (seeds[i] + 1) % NumPrompts)

\* All attempts of a cycle were turned down, and their seeds went past the
\* end of PROMPTS and on from its beginning.
C19_Witness ==
    /\ pc = "skip_sleep"
    /\ Len(seeds) = MaxAttempts
    /\ seeds[1] > seeds[MaxAttempts]

\* C20: when a cycle begins, history_hashes is the set of the fingerprints of
\* the records in the history file, and during the attempts the gate decides
\* on every candidate as it would with the fingerprints read from the file.
C20_HashesMatchLedger ==
    /\ pc = "cycle" => history_hashes = load_history_hashes(history)
    /\ pc = "attempt" =>
         \A c \in {d \in Finalized : d.website = website} :
            Gate(c, history_hashes) = Gate(c, load_history_hashes(history))

\* A cycle begins after a record was appended to a file that held a line
\* that is no JSON and a record when main started.
C20_Witness ==
    /\ pc = "cycle"
    /\ Len(history) = 3
    /\ history[1].kind = "garbage"
    /\ Cardinality(history_hashes) = 2

\* ------------------------------------------------------------------------
\* The authorization flow's contract
\* ------------------------------------------------------------------------

\* A callback request taken by the server that carried the code c together
\* with the state main generated
MatchingCallback(c) ==
    \E r \in callbacks : r.code = c /\ r.state = state

\* C21: under every interleaving of the server thread and main, the code
\* main posts to the token endpoint was carried by a callback request whose
\* state parameter is the state main generated; and the tokens file is
\* written only when such a callback came before the wait timed out, its
\* code was not empty and the exchange was answered with status 200.
C21_CodeFromMatchingCallback ==
    /\ sent_code # None => MatchingCallback(sent_code)
    /\ tokens_file # NoTokens =>
        /\ MatchingCallback(tokens_file.grant)
        /\ ~timed_out
        /\ tokens_file.grant # None
        /\ status_code = 200

====
